---- MODULE Spec2Model ----
(***************************************************************************)
(* Model of megalodon's Pixelfed adapter                                   *)
(* (src/megalodon/src/pixelfed/api_client.ts):                             *)
(*   - PixelfedAPI.Client: the eight verb methods, the bearer-token header *)
(*     merge, the response envelope and cancel();                          *)
(*   - PixelfedAPI.Converter: the notification-type mapper and the entity  *)
(*     converters.                                                         *)
(* JavaScript values are encoded as tagged records so that any two values  *)
(* can be compared: Str, Num, Bool, Null, Undefined, Arr; an object is the *)
(* record of its own keys (an absent key is absent from its DOMAIN).       *)
(***************************************************************************)
EXTENDS Integers, Sequences, FiniteSets, Bags, TLC

VARIABLES
  constructed,          \* the Client instances that exist
  accessToken,          \* this.accessToken of each instance
  baseUrl,              \* this.baseUrl of each instance
  aborted,              \* this.abortController.signal.aborted of each instance
  axiosDefaultsSignal,  \* axios.defaults.signal: the instance whose controller owns it
  requests,             \* the transport calls that are still pending
  axiosCall,            \* the call the last step made into the transport, if any
  settled,              \* the verb promises the last step settled
  convOp,               \* the converter the last step applied, if any
  convIn,               \* its argument
  convOut               \* its result

clientVars == <<constructed, accessToken, baseUrl, aborted, axiosDefaultsSignal,
                requests, axiosCall, settled>>
convVars == <<convOp, convIn, convOut>>
vars == <<constructed, accessToken, baseUrl, aborted, axiosDefaultsSignal,
          requests, axiosCall, settled, convOp, convIn, convOut>>

----------------------------------------------------------------------------
(* JavaScript values *)

Str(s) == [str |-> s]
Num(n) == [num |-> n]
Bool(b) == [bool |-> b]
Arr(q) == [arr |-> q]
Null == [null |-> TRUE]
Undefined == [undefined |-> TRUE]
EmptyObject == <<>>

\* ToBoolean: what `if (v)` and `v ? x : y` test
Truthy(v) == v \notin {Null, Undefined, Bool(FALSE), Str(""), Num(0)}

\* o.k: Undefined when o has no own key k
Get(o, k) == IF k \in DOMAIN o THEN o[k] ELSE Undefined

IsArray(v) == DOMAIN v = {"arr"}

----------------------------------------------------------------------------
(* Bounds and input domains *)

\* pending transport calls at a time
MaxRequests == 2

ClientIds == {"A", "B"}
NoSignal == "undefined"

Verbs == {"get", "put", "putForm", "patch", "patchForm", "post", "postForm", "del"}

BaseUrlOf(c) == IF c = "A" THEN "https://a.example" ELSE "https://b.example"
Path == "/api/v1/x"

\* access tokens a Client is constructed with (null is the default argument)
Tokens == {Null, Str(""), Str("tok")}

\* headers arguments of the verb methods ({} is the default argument)
CallerHeaders ==
  { EmptyObject,
    [Accept |-> "text/html"],
    [Authorization |-> "Basic caller"],
    [Accept |-> "text/html", Authorization |-> "Basic caller"] }

\* what the transport resolves with (AxiosResponse)
Responses ==
  { [data |-> "{ok:true}", status |-> 200, statusText |-> "OK",
     headers |-> [ctype |-> "application/json"], config |-> "config", request |-> "request"],
    [data |-> "", status |-> 204, statusText |-> "No Content",
     headers |-> EmptyObject, config |-> "config", request |-> "request"] }

\* what the transport rejects with when the request was not aborted (AxiosError)
Failures ==
  { [name |-> "AxiosError", message |-> "Request failed with status code 404",
     code |-> "ERR_BAD_REQUEST"],
    [name |-> "AxiosError", message |-> "Network Error", code |-> "ERR_NETWORK"] }

\* what the transport rejects an aborted request with
CanceledError ==
  [name |-> "CanceledError", message |-> "canceled", code |-> "ERR_CANCELED",
   __CANCEL__ |-> TRUE]

NoCall == <<>>

----------------------------------------------------------------------------
(* Promises *)

Fulfilled(v) == [state |-> "fulfilled", value |-> v]
Rejected(e) == [state |-> "rejected", reason |-> e]

----------------------------------------------------------------------------
(* PixelfedAPI.Client *)

\* ../cancel: class RequestCanceledError extends Error, flagged isCancel
RequestCanceledError(message) ==
  [name |-> "RequestCanceledError", message |-> message, isCancel |-> TRUE]

\* axios.isCancel(err)
isCancel(err) == "__CANCEL__" \in DOMAIN err /\ err.__CANCEL__

\* a merge in which the earlier object's value wins
assignLeaf_FirstWins(a, b) ==
  [k \in DOMAIN a \cup DOMAIN b |-> IF k \in DOMAIN a THEN a[k] ELSE b[k]]

\* object-assign-deep on two objects: own keys of b win; where both hold an
\* object under the same key (here: headers) the two are merged key by key
assignLeaf(a, b) ==
  [k \in DOMAIN a \cup DOMAIN b |-> IF k \in DOMAIN b THEN b[k] ELSE a[k]]

\* a shallow Object.assign in place of the deep merge
objectAssignShallow(target, a, b) == assignLeaf(assignLeaf(target, a), b)

objectAssignDeep(target, a, b) ==
  LET merge(x, y) ==
        [k \in DOMAIN x \cup DOMAIN y |->
           IF k \notin DOMAIN y THEN x[k]
           ELSE IF k \in DOMAIN x /\ k = "headers" THEN assignLeaf(x[k], y[k])
           ELSE y[k]]
  IN merge(merge(target, a), b)

\* if (this.accessToken) { options = objectAssignDeep({}, options, {headers: {Authorization}}) }
authorize(token, options) ==
  IF Truthy(token)
  THEN objectAssignDeep(EmptyObject, options,
                        [headers |-> [Authorization |-> "Bearer " \o token.str]])
  ELSE options

\* a handler that maps every failure to the cancellation failure
onRejected_AlwaysCanceled(err) == Rejected(RequestCanceledError(err.message))

\* a handler that hands the transport's response through
onFulfilled_RawResponse(resp) == Fulfilled(resp)

\* .catch((err) => { if (axios.isCancel(err)) throw new RequestCanceledError(err.message) else throw err })
onRejected(err) ==
  IF isCancel(err) THEN Rejected(RequestCanceledError(err.message)) ELSE Rejected(err)

\* .then((resp) => ({ data, status, statusText, headers }))
onFulfilled(resp) ==
  Fulfilled([data |-> resp.data, status |-> resp.status,
             statusText |-> resp.statusText, headers |-> resp.headers])

promiseCatch(p) == IF p.state = "rejected" THEN onRejected(p.reason) ELSE p
promiseThen(p) == IF p.state = "fulfilled" THEN onFulfilled(p.value) ELSE p

\* del written like post, without the .catch
delPromise_NoCatch(p) == promiseThen(p)

\* the promise each verb method returns, from the promise the transport returned
getPromise(p) == promiseThen(promiseCatch(p))
putPromise(p) == promiseThen(promiseCatch(p))
putFormPromise(p) == promiseThen(promiseCatch(p))
patchPromise(p) == promiseThen(promiseCatch(p))
patchFormPromise(p) == promiseThen(promiseCatch(p))
postPromise(p) == promiseThen(p)
postFormPromise(p) == promiseThen(p)
delPromise(p) == promiseThen(promiseCatch(p))

verbPromise(verb, p) ==
  CASE verb = "get" -> getPromise(p)
    [] verb = "put" -> putPromise(p)
    [] verb = "putForm" -> putFormPromise(p)
    [] verb = "patch" -> patchPromise(p)
    [] verb = "patchForm" -> patchFormPromise(p)
    [] verb = "post" -> postPromise(p)
    [] verb = "postForm" -> postFormPromise(p)
    [] verb = "del" -> delPromise(p)

\* what a step that settles the transport promise of r hands to the caller
Outcome(r, p) == [request |-> r, transport |-> p, promise |-> verbPromise(r.verb, p)]

\* axios.<verb>(url, [data,] config): the config is merged with axios.defaults,
\* so the call is bound to the signal axios.defaults.signal holds at that moment;
\* afterCancel records whether the issuing instance had been canceled by then
axiosRequest(c, verb, url, data, config, headers) ==
  /\ BagCardinality(requests) < MaxRequests
  /\ requests' = requests (+) SetToBag({[client |-> c, verb |-> verb,
                                         signal |-> axiosDefaultsSignal,
                                         afterCancel |-> aborted[c]]})
  /\ axiosCall' = [client |-> c, verb |-> verb, url |-> url, data |-> data,
                   config |-> config, headers |-> headers]
  /\ settled' = {}
  /\ UNCHANGED <<constructed, accessToken, baseUrl, aborted, axiosDefaultsSignal>>
  /\ UNCHANGED convVars

Init ==
  /\ constructed = {}
  /\ accessToken = [c \in ClientIds |-> Undefined]
  /\ baseUrl = [c \in ClientIds |-> ""]
  /\ aborted = [c \in ClientIds |-> FALSE]
  /\ axiosDefaultsSignal = NoSignal
  /\ requests = EmptyBag
  /\ axiosCall = NoCall
  /\ settled = {}
  /\ convOp = "none"
  /\ convIn = Undefined
  /\ convOut = Undefined

Constructor(c, url, token) ==
  /\ c \notin constructed
  /\ constructed' = constructed \cup {c}
  /\ accessToken' = [accessToken EXCEPT ![c] = token]
  /\ baseUrl' = [baseUrl EXCEPT ![c] = url]
  /\ aborted' = [aborted EXCEPT ![c] = FALSE]
  /\ axiosDefaultsSignal' = c
  /\ axiosCall' = NoCall
  /\ settled' = {}
  /\ UNCHANGED requests
  /\ UNCHANGED convVars

get(c, headers, pathIsFullyQualified) ==
  /\ c \in constructed
  /\ LET options == [params |-> EmptyObject, headers |-> headers,
                     maxContentLength |-> "Infinity", maxBodyLength |-> "Infinity"]
     IN axiosRequest(c, "get", (IF pathIsFullyQualified THEN "" ELSE baseUrl[c]) \o Path,
                     Undefined, authorize(accessToken[c], options), headers)

put(c, headers) ==
  /\ c \in constructed
  /\ LET options == [headers |-> headers,
                     maxContentLength |-> "Infinity", maxBodyLength |-> "Infinity"]
     IN axiosRequest(c, "put", baseUrl[c] \o Path, EmptyObject,
                     authorize(accessToken[c], options), headers)

putForm(c, headers) ==
  /\ c \in constructed
  /\ LET options == [headers |-> headers,
                     maxContentLength |-> "Infinity", maxBodyLength |-> "Infinity"]
     IN axiosRequest(c, "putForm", baseUrl[c] \o Path, EmptyObject,
                     authorize(accessToken[c], options), headers)

patch(c, headers) ==
  /\ c \in constructed
  /\ LET options == [headers |-> headers,
                     maxContentLength |-> "Infinity", maxBodyLength |-> "Infinity"]
     IN axiosRequest(c, "patch", baseUrl[c] \o Path, EmptyObject,
                     authorize(accessToken[c], options), headers)

patchForm(c, headers) ==
  /\ c \in constructed
  /\ LET options == [headers |-> headers,
                     maxContentLength |-> "Infinity", maxBodyLength |-> "Infinity"]
     IN axiosRequest(c, "patchForm", baseUrl[c] \o Path, EmptyObject,
                     authorize(accessToken[c], options), headers)

post(c, headers) ==
  /\ c \in constructed
  /\ LET options == [headers |-> headers,
                     maxContentLength |-> "Infinity", maxBodyLength |-> "Infinity"]
     IN axiosRequest(c, "post", baseUrl[c] \o Path, EmptyObject,
                     authorize(accessToken[c], options), headers)

postForm(c, headers) ==
  /\ c \in constructed
  /\ LET options == [headers |-> headers,
                     maxContentLength |-> "Infinity", maxBodyLength |-> "Infinity"]
     IN axiosRequest(c, "postForm", baseUrl[c] \o Path, EmptyObject,
                     authorize(accessToken[c], options), headers)

del(c, headers) ==
  /\ c \in constructed
  /\ LET options == [data |-> EmptyObject, headers |-> headers,
                     maxContentLength |-> "Infinity", maxBodyLength |-> "Infinity"]
     IN axiosRequest(c, "del", baseUrl[c] \o Path, Undefined,
                     authorize(accessToken[c], options), headers)

\* this.abortController.abort(): the first call fires the signal's abort event,
\* on which the transport rejects every pending call bound to that signal; the
\* reactions of the rejected promises run before any other task
cancel(c) ==
  /\ c \in constructed
  /\ LET hit == IF aborted[c] THEN {}
                ELSE {r \in BagToSet(requests) : r.signal = c}
     IN /\ requests' = [r \in BagToSet(requests) \ hit |-> requests[r]]
        /\ settled' = {Outcome(r, Rejected(CanceledError)) : r \in hit}
  /\ aborted' = [aborted EXCEPT ![c] = TRUE]
  /\ axiosCall' = NoCall
  /\ UNCHANGED <<constructed, accessToken, baseUrl, axiosDefaultsSignal>>
  /\ UNCHANGED convVars

\* the transport settles one pending call and the method's reactions run
axiosSettle(r, p) ==
  /\ BagIn(r, requests)
  /\ requests' = requests (-) SetToBag({r})
  /\ settled' = {Outcome(r, p)}
  /\ axiosCall' = NoCall
  /\ UNCHANGED <<constructed, accessToken, baseUrl, aborted, axiosDefaultsSignal>>
  /\ UNCHANGED convVars

axiosRespond(r, resp) == ~aborted[r.signal] /\ axiosSettle(r, Fulfilled(resp))
axiosFail(r, err) == ~aborted[r.signal] /\ axiosSettle(r, Rejected(err))
\* a call issued on a signal that is already aborted is rejected by the transport
axiosAbort(r) == aborted[r.signal] /\ axiosSettle(r, Rejected(CanceledError))

ClientNext(CS, TS, HS, RS, FS) ==
  \/ \E c \in CS, t \in TS : Constructor(c, BaseUrlOf(c), t)
  \/ \E c \in CS, h \in HS, q \in BOOLEAN : get(c, h, q)
  \/ \E c \in CS, h \in HS : put(c, h)
  \/ \E c \in CS, h \in HS : putForm(c, h)
  \/ \E c \in CS, h \in HS : patch(c, h)
  \/ \E c \in CS, h \in HS : patchForm(c, h)
  \/ \E c \in CS, h \in HS : post(c, h)
  \/ \E c \in CS, h \in HS : postForm(c, h)
  \/ \E c \in CS, h \in HS : del(c, h)
  \/ \E c \in CS : cancel(c)
  \/ \E r \in BagToSet(requests), resp \in RS : axiosRespond(r, resp)
  \/ \E r \in BagToSet(requests), err \in FS : axiosFail(r, err)
  \/ \E r \in BagToSet(requests) : axiosAbort(r)

\* two instances sharing the transport; default token and headers arguments
Next == ClientNext(ClientIds, {Null}, {EmptyObject},
                   {CHOOSE r \in Responses : r.status = 200},
                   {CHOOSE e \in Failures : e.code = "ERR_NETWORK"})
Spec == Init /\ [][Next]_vars

\* one instance; every token, headers argument, response and failure
RequestNext == ClientNext({"A"}, Tokens, CallerHeaders, Responses, Failures)
RequestSpec == Init /\ [][RequestNext]_vars
----------------------------------------------------------------------------
(* Enumerations: ../notification and ./notification *)

NotificationType_Follow == [enum |-> "NotificationType", member |-> "Follow"]
NotificationType_Favourite == [enum |-> "NotificationType", member |-> "Favourite"]
NotificationType_Reblog == [enum |-> "NotificationType", member |-> "Reblog"]
NotificationType_Mention == [enum |-> "NotificationType", member |-> "Mention"]
NotificationType_FollowRequest == [enum |-> "NotificationType", member |-> "FollowRequest"]

PixelfedNotificationType_Follow == [enum |-> "PixelfedNotificationType", member |-> "Follow"]
PixelfedNotificationType_Favourite == [enum |-> "PixelfedNotificationType", member |-> "Favourite"]
PixelfedNotificationType_Reblog == [enum |-> "PixelfedNotificationType", member |-> "Reblog"]
PixelfedNotificationType_Mention == [enum |-> "PixelfedNotificationType", member |-> "Mention"]
PixelfedNotificationType_FollowRequest ==
  [enum |-> "PixelfedNotificationType", member |-> "FollowRequest"]

\* new UnknownNotificationTypeError()
UnknownNotificationTypeError == [name |-> "UnknownNotificationTypeError"]

----------------------------------------------------------------------------
(* PixelfedAPI.Converter *)

\* decode with the reblog and mention cases exchanged
decodeNotificationType_Swapped(t) ==
  CASE t = PixelfedNotificationType_Follow -> NotificationType_Follow
    [] t = PixelfedNotificationType_Favourite -> NotificationType_Favourite
    [] t = PixelfedNotificationType_Mention -> NotificationType_Reblog
    [] t = PixelfedNotificationType_Reblog -> NotificationType_Mention
    [] t = PixelfedNotificationType_FollowRequest -> NotificationType_FollowRequest
    [] OTHER -> UnknownNotificationTypeError

encodeNotificationType(t) ==
  CASE t = NotificationType_Follow -> PixelfedNotificationType_Follow
    [] t = NotificationType_Favourite -> PixelfedNotificationType_Favourite
    [] t = NotificationType_Reblog -> PixelfedNotificationType_Reblog
    [] t = NotificationType_Mention -> PixelfedNotificationType_Mention
    [] t = NotificationType_FollowRequest -> PixelfedNotificationType_FollowRequest
    [] OTHER -> UnknownNotificationTypeError

decodeNotificationType(t) ==
  CASE t = PixelfedNotificationType_Follow -> NotificationType_Follow
    [] t = PixelfedNotificationType_Favourite -> NotificationType_Favourite
    [] t = PixelfedNotificationType_Mention -> NotificationType_Mention
    [] t = PixelfedNotificationType_Reblog -> NotificationType_Reblog
    [] t = PixelfedNotificationType_FollowRequest -> NotificationType_FollowRequest
    [] OTHER -> UnknownNotificationTypeError

\* a converter that copies bot from the backend account
account_BotFromBackend(a) ==
  [k \in {"id", "username", "acct", "display_name", "locked", "discoverable", "group",
          "noindex", "suspended", "limited", "created_at", "followers_count",
          "following_count", "statuses_count", "note", "url", "avatar", "avatar_static",
          "header", "header_static", "emojis", "moved", "fields", "bot", "source"} |->
     IF k \in {"group", "noindex", "suspended", "limited", "moved"} THEN Null ELSE Get(a, k)]

account(a) ==
  [id |-> Get(a, "id"),
   username |-> Get(a, "username"),
   acct |-> Get(a, "acct"),
   display_name |-> Get(a, "display_name"),
   locked |-> Get(a, "locked"),
   discoverable |-> Get(a, "discoverable"),
   group |-> Null,
   noindex |-> Null,
   suspended |-> Null,
   limited |-> Null,
   created_at |-> Get(a, "created_at"),
   followers_count |-> Get(a, "followers_count"),
   following_count |-> Get(a, "following_count"),
   statuses_count |-> Get(a, "statuses_count"),
   note |-> Get(a, "note"),
   url |-> Get(a, "url"),
   avatar |-> Get(a, "avatar"),
   avatar_static |-> Get(a, "avatar_static"),
   header |-> Get(a, "header"),
   header_static |-> Get(a, "header_static"),
   emojis |-> Get(a, "emojis"),
   moved |-> Null,
   fields |-> Get(a, "fields"),
   bot |-> Null,
   source |-> Get(a, "source")]

application(a) == a
attachment(a) == a
emoji(e) == e
mention(m) == m
poll(p) == p

\* the object literal of status, around the value computed for its reblog
statusObject(s, reblog) ==
  [id |-> Get(s, "id"),
   uri |-> Get(s, "uri"),
   url |-> Get(s, "url"),
   account |-> account(Get(s, "account")),
   in_reply_to_id |-> Get(s, "in_reply_to_id"),
   in_reply_to_account_id |-> Get(s, "in_reply_to_account_id"),
   reblog |-> reblog,
   content |-> Get(s, "content"),
   plain_content |-> Null,
   created_at |-> Get(s, "created_at"),
   edited_at |-> Get(s, "edited_at"),
   emojis |-> IF IsArray(Get(s, "emojis"))
              THEN Arr([i \in DOMAIN Get(s, "emojis").arr |-> emoji(Get(s, "emojis").arr[i])])
              ELSE Arr(<<>>),
   replies_count |-> Get(s, "replies_count"),
   reblogs_count |-> Get(s, "reblogs_count"),
   favourites_count |-> Get(s, "favourites_count"),
   reblogged |-> Get(s, "reblogged"),
   favourited |-> Get(s, "favourited"),
   muted |-> Get(s, "muted"),
   sensitive |-> Get(s, "sensitive"),
   spoiler_text |-> Get(s, "spoiler_text"),
   visibility |-> Get(s, "visibility"),
   media_attachments |-> IF IsArray(Get(s, "media_attachments"))
                         THEN Arr([i \in DOMAIN Get(s, "media_attachments").arr |->
                                     attachment(Get(s, "media_attachments").arr[i])])
                         ELSE Arr(<<>>),
   mentions |-> IF IsArray(Get(s, "mentions"))
                THEN Arr([i \in DOMAIN Get(s, "mentions").arr |-> mention(Get(s, "mentions").arr[i])])
                ELSE Arr(<<>>),
   tags |-> Get(s, "tags"),
   card |-> Null,
   poll |-> IF Truthy(Get(s, "poll")) THEN poll(Get(s, "poll")) ELSE Null,
   application |-> IF Truthy(Get(s, "application"))
                   THEN application(Get(s, "application")) ELSE Null,
   language |-> Get(s, "language"),
   pinned |-> Bool(FALSE),
   emoji_reactions |-> Arr(<<>>),
   bookmarked |-> IF Truthy(Get(s, "bookmarked")) THEN Get(s, "bookmarked") ELSE Bool(FALSE),
   quote |-> Bool(FALSE)]

\* a converter that hands the nested reblog through unconverted
status_RawReblog(s) ==
  statusObject(s, IF Truthy(Get(s, "reblog")) THEN Get(s, "reblog") ELSE Null)

RECURSIVE status(_)
status(s) ==
  statusObject(s, IF Truthy(Get(s, "reblog")) THEN status(Get(s, "reblog")) ELSE Null)

\* a converter that always emits a status key, null when there is none
notification_StatusAlways(n) ==
  LET notificationType == decodeNotificationType(Get(n, "type"))
  IN IF notificationType = UnknownNotificationTypeError THEN notificationType
     ELSE [account |-> account(Get(n, "account")),
           created_at |-> Get(n, "created_at"),
           id |-> Get(n, "id"),
           status |-> IF Truthy(Get(n, "status")) THEN status(Get(n, "status")) ELSE Null,
           type |-> notificationType]

\* a converter that tests for the status before the type
notification_StatusFirst(n) ==
  LET notificationType == decodeNotificationType(Get(n, "type"))
  IN IF Truthy(Get(n, "status"))
     THEN [account |-> account(Get(n, "account")),
           created_at |-> Get(n, "created_at"),
           id |-> Get(n, "id"),
           status |-> status(Get(n, "status")),
           type |-> notificationType]
     ELSE IF notificationType = UnknownNotificationTypeError THEN notificationType
     ELSE [account |-> account(Get(n, "account")),
           created_at |-> Get(n, "created_at"),
           id |-> Get(n, "id"),
           type |-> notificationType]

notification(n) ==
  LET notificationType == decodeNotificationType(Get(n, "type"))
  IN IF notificationType = UnknownNotificationTypeError THEN notificationType
     ELSE IF Truthy(Get(n, "status"))
     THEN [account |-> account(Get(n, "account")),
           created_at |-> Get(n, "created_at"),
           id |-> Get(n, "id"),
           status |-> status(Get(n, "status")),
           type |-> notificationType]
     ELSE [account |-> account(Get(n, "account")),
           created_at |-> Get(n, "created_at"),
           id |-> Get(n, "id"),
           type |-> notificationType]

stats(s) == s
tag(t) == t

context(c) ==
  [ancestors |-> IF IsArray(Get(c, "ancestors"))
                 THEN Arr([i \in DOMAIN Get(c, "ancestors").arr |->
                             status(Get(c, "ancestors").arr[i])])
                 ELSE Arr(<<>>),
   descendants |-> IF IsArray(Get(c, "descendants"))
                   THEN Arr([i \in DOMAIN Get(c, "descendants").arr |->
                               status(Get(c, "descendants").arr[i])])
                   ELSE Arr(<<>>)]

conversation(c) ==
  [id |-> Get(c, "id"),
   accounts |-> IF IsArray(Get(c, "accounts"))
                THEN Arr([i \in DOMAIN Get(c, "accounts").arr |->
                            account(Get(c, "accounts").arr[i])])
                ELSE Arr(<<>>),
   last_status |-> IF Truthy(Get(c, "last_status"))
                   THEN status(Get(c, "last_status")) ELSE Null,
   unread |-> Get(c, "unread")]

instance(i) ==
  [uri |-> Get(i, "uri"),
   title |-> Get(i, "title"),
   description |-> Get(i, "description"),
   email |-> Get(i, "email"),
   version |-> Get(i, "version"),
   thumbnail |-> Get(i, "thumbnail"),
   urls |-> Null,
   stats |-> stats(Get(i, "stats")),
   languages |-> Get(i, "languages"),
   registrations |-> Get(i, "registrations"),
   approval_required |-> Get(i, "approval_required"),
   configuration |->
     [statuses |->
        [max_characters |-> Get(i.configuration.statuses, "max_characters"),
         max_media_attachments |-> Get(i.configuration.statuses, "max_media_attachments"),
         characters_reserved_per_url |->
           Get(i.configuration.statuses, "characters_reserved_per_url")],
      polls |->
        [max_options |-> Get(i.configuration.polls, "max_options"),
         max_characters_per_option |-> Get(i.configuration.polls, "max_characters_per_option"),
         min_expiration |-> Get(i.configuration.polls, "min_expiration"),
         max_expiration |-> Get(i.configuration.polls, "max_expiration")]],
   contact_account |-> account(Get(i, "contact_account")),
   rules |-> Get(i, "rules")]

report(r) ==
  [id |-> Get(r, "id"),
   action_taken |-> Get(r, "action_taken"),
   action_taken_at |-> Get(r, "action_taken_at"),
   status_ids |-> Get(r, "status_ids"),
   rule_ids |-> Get(r, "rule_ids"),
   category |-> Get(r, "category"),
   comment |-> Get(r, "comment"),
   forwarded |-> Get(r, "forwarded"),
   target_account |-> account(Get(r, "target_account"))]

results(r) ==
  [accounts |-> IF IsArray(Get(r, "accounts"))
                THEN Arr([i \in DOMAIN Get(r, "accounts").arr |->
                            account(Get(r, "accounts").arr[i])])
                ELSE Arr(<<>>),
   statuses |-> IF IsArray(Get(r, "statuses"))
                THEN Arr([i \in DOMAIN Get(r, "statuses").arr |->
                            status(Get(r, "statuses").arr[i])])
                ELSE Arr(<<>>),
   hashtags |-> IF IsArray(Get(r, "hashtags"))
                THEN Arr([i \in DOMAIN Get(r, "hashtags").arr |->
                            tag(Get(r, "hashtags").arr[i])])
                ELSE Arr(<<>>)]

----------------------------------------------------------------------------
(* Backend entities the converters are applied to *)

\* nesting depth of reblog chains
MaxReblogDepth == 2

Without(o, keys) == [k \in DOMAIN o \ keys |-> o[k]]
With(o, key, v) == [k \in DOMAIN o \cup {key} |-> IF k = key THEN v ELSE o[k]]

BackendAccount(id, optional) ==
  optional @@
  [id |-> Str(id), username |-> Str("user" \o id), acct |-> Str("user" \o id),
   display_name |-> Str("User " \o id), locked |-> Bool(FALSE),
   followers_count |-> Num(3), following_count |-> Num(2), statuses_count |-> Num(1),
   note |-> Str(""), url |-> Str("https://pixelfed.example/" \o id),
   avatar |-> Str("a.png"), created_at |-> Str("2023-01-01"),
   avatar_static |-> Str("a.png"), bot |-> Bool(FALSE),
   emojis |-> Arr(<<>>), fields |-> Arr(<<>>),
   header |-> Str("h.png"), header_static |-> Str("h.png"), last_status_at |-> Null]

Account1 ==
  BackendAccount("1", [discoverable |-> Bool(TRUE),
                       source |-> [privacy |-> Str("public"), note |-> Str("")]])
\* the backend omitted discoverable and source
Account2 == BackendAccount("2", EmptyObject)
BackendAccounts == {Account1, Account2}

Attachment1 == [id |-> Str("m1"), type |-> Str("image"), url |-> Str("https://x/m1.png")]
Mention1 == [id |-> Str("2"), username |-> Str("user2"), acct |-> Str("user2")]
Emoji1 == [shortcode |-> Str("blob"), url |-> Str("https://x/blob.png")]
Poll1 == [id |-> Str("p1"), expired |-> Bool(FALSE)]
Application1 == [name |-> Str("web")]

BackendStatus(id, a, optional) ==
  optional @@
  [id |-> Str(id), uri |-> Str("https://x/s/" \o id), url |-> Str("https://x/s/" \o id),
   account |-> a, in_reply_to_id |-> Null, in_reply_to_account_id |-> Null,
   reblog |-> Null, content |-> Str("<p>hi</p>"), created_at |-> Str("2023-01-02"),
   edited_at |-> Null, emojis |-> Arr(<<>>), replies_count |-> Num(0),
   reblogs_count |-> Num(0), favourites_count |-> Num(0), reblogged |-> Null,
   favourited |-> Bool(FALSE), muted |-> Null, sensitive |-> Bool(FALSE),
   spoiler_text |-> Str(""), visibility |-> Str("public"),
   media_attachments |-> Arr(<<>>), mentions |-> Arr(<<>>), tags |-> Arr(<<>>),
   poll |-> Null, application |-> Null, language |-> Null]

StatusShapes ==
  { BackendStatus("1", Account1,
                  [media_attachments |-> Arr(<<Attachment1>>), mentions |-> Arr(<<Mention1>>),
                   emojis |-> Arr(<<Emoji1>>), bookmarked |-> Bool(TRUE),
                   application |-> Application1]),
    BackendStatus("2", Account2, [emojis |-> Null, poll |-> Poll1]),
    BackendStatus("3", Account1,
                  [media_attachments |-> Str("none"), bookmarked |-> Bool(FALSE)]),
    Without(BackendStatus("4", Account2, EmptyObject), {"reblog", "mentions"}) }

RECURSIVE StatusesOfDepth(_)
StatusesOfDepth(d) ==
  IF d = 0 THEN StatusShapes
  ELSE StatusShapes \cup
       {With(s, "reblog", r) : s \in StatusShapes, r \in StatusesOfDepth(d - 1)}

BackendStatuses == StatusesOfDepth(MaxReblogDepth)

CanonicalKinds ==
  {NotificationType_Follow, NotificationType_Favourite, NotificationType_Reblog,
   NotificationType_Mention, NotificationType_FollowRequest}
BackendKinds ==
  {PixelfedNotificationType_Follow, PixelfedNotificationType_Favourite,
   PixelfedNotificationType_Reblog, PixelfedNotificationType_Mention,
   PixelfedNotificationType_FollowRequest}
\* values outside the known kinds
UnknownKinds ==
  {Str("bogus_kind"), Str(""), Null, Undefined,
   [enum |-> "NotificationType", member |-> "PollExpired"],
   [enum |-> "PixelfedNotificationType", member |-> "Comment"]}

BackendNotifications ==
  LET base(t, a) == [account |-> a, created_at |-> Str("2023-01-03"),
                     id |-> Str("n1"), type |-> t]
  IN {base(t, a) : t \in BackendKinds \cup UnknownKinds, a \in BackendAccounts}
     \cup {With(base(t, a), "status", st) :
             t \in BackendKinds \cup UnknownKinds, a \in BackendAccounts,
             st \in {Null} \cup StatusesOfDepth(1)}

\* backend values of array fields: an array, null, a non-array, or (Undefined) no key
Status1 == BackendStatus("1", Account1, EmptyObject)
Tag1 == [name |-> Str("cats"), url |-> Str("https://x/tags/cats")]

Object(fields) == [k \in {f \in DOMAIN fields : fields[f] # Undefined} |-> fields[k]]

\* accounts and statuses whose array fields the backend left null or out
MalformedAccounts ==
  { BackendAccount("3", [emojis |-> Null]),
    Without(BackendAccount("4", [discoverable |-> Bool(FALSE)]), {"fields"}) }
MalformedStatuses ==
  { BackendStatus("5", Account1, [tags |-> Null]),
    Without(BackendStatus("6", Account2, [mentions |-> Null]), {"emojis", "media_attachments"}) }

AccountInputs == BackendAccounts \cup MalformedAccounts
StatusInputs == BackendStatuses \cup MalformedStatuses

BackendContexts ==
  { Object([ancestors |-> a, descendants |-> d]) :
      a \in {Arr(<<Status1>>), Null, Undefined},
      d \in {Arr(<<Status1, Status1>>), Arr(<<>>), Str("none")} }

BackendConversations ==
  { Object([id |-> Str("c1"), accounts |-> a, last_status |-> l, unread |-> Bool(TRUE)]) :
      a \in {Arr(<<Account1, Account2>>), Null, Undefined},
      l \in {Null, Status1} }

BackendResults ==
  { Object([accounts |-> a, statuses |-> st, hashtags |-> h]) :
      a \in {Arr(<<Account2>>), Null},
      st \in {Arr(<<Status1>>), Undefined},
      h \in {Arr(<<Tag1>>), Null, Str("none")} }

BackendInstances ==
  { Object([uri |-> Str("pixelfed.example"), title |-> Str("Pixelfed"),
            short_description |-> Str(""), description |-> Str(""),
            email |-> Str("admin@pixelfed.example"), version |-> Str("0.11"),
            thumbnail |-> Null,
            stats |-> [user_count |-> Num(3), status_count |-> Num(9), domain_count |-> Num(1)],
            languages |-> l, registrations |-> Bool(TRUE), approval_required |-> Bool(FALSE),
            configuration |->
              [statuses |-> [max_characters |-> Num(500), max_media_attachments |-> Num(4),
                             characters_reserved_per_url |-> Num(23)],
               media_attachments |-> [image_size_limit |-> Num(1000)],
               polls |-> [max_options |-> Num(4), max_characters_per_option |-> Num(50),
                          min_expiration |-> Num(300), max_expiration |-> Num(3000)]],
            contact_account |-> Account1, rules |-> r]) :
      l \in {Arr(<<Str("en")>>), Null, Undefined},
      r \in {Arr(<<[id |-> Str("1"), text |-> Str("be kind")]>>), Null} }

BackendReports ==
  { Object([id |-> Str("r1"), action_taken |-> Bool(FALSE), action_taken_at |-> Null,
            status_ids |-> si, rule_ids |-> ri, category |-> Str("spam"),
            comment |-> Str(""), forwarded |-> Bool(FALSE), target_account |-> Account2]) :
      si \in {Arr(<<Str("1")>>), Null},
      ri \in {Arr(<<Str("1")>>), Null, Undefined} }

----------------------------------------------------------------------------
(* Applying the converters *)

EncoderInputs == CanonicalKinds \cup UnknownKinds
DecoderInputs == BackendKinds \cup UnknownKinds

\* a value is handed to the converter module; no converter has been applied yet
ConvInit ==
  /\ constructed = {}
  /\ accessToken = [c \in ClientIds |-> Undefined]
  /\ baseUrl = [c \in ClientIds |-> ""]
  /\ aborted = [c \in ClientIds |-> FALSE]
  /\ axiosDefaultsSignal = NoSignal
  /\ requests = EmptyBag
  /\ axiosCall = NoCall
  /\ settled = {}
  /\ convOp = "none"
  /\ convIn \in EncoderInputs \cup DecoderInputs \cup BackendAccounts
                \cup BackendStatuses \cup BackendNotifications
                \cup MalformedAccounts \cup MalformedStatuses
                \cup BackendContexts \cup BackendConversations \cup BackendResults
                \cup BackendInstances \cup BackendReports
  /\ convOut = Undefined

Convert(op, out) ==
  /\ convOp = "none"
  /\ convOp' = op
  /\ convOut' = out
  /\ UNCHANGED convIn
  /\ UNCHANGED clientVars

EncodeNotificationType ==
  convIn \in EncoderInputs /\ Convert("encodeNotificationType", encodeNotificationType(convIn))
DecodeNotificationType ==
  convIn \in DecoderInputs /\ Convert("decodeNotificationType", decodeNotificationType(convIn))
ConvertAccount ==
  convIn \in AccountInputs /\ Convert("account", account(convIn))
ConvertStatus ==
  convIn \in StatusInputs /\ Convert("status", status(convIn))
ConvertNotification ==
  convIn \in BackendNotifications /\ Convert("notification", notification(convIn))

ConvertContext ==
  convIn \in BackendContexts /\ Convert("context", context(convIn))
ConvertConversation ==
  convIn \in BackendConversations /\ Convert("conversation", conversation(convIn))
ConvertInstance ==
  convIn \in BackendInstances /\ Convert("instance", instance(convIn))
ConvertReport ==
  convIn \in BackendReports /\ Convert("report", report(convIn))
ConvertResults ==
  convIn \in BackendResults /\ Convert("results", results(convIn))

ConvNext ==
  \/ EncodeNotificationType
  \/ DecodeNotificationType
  \/ ConvertAccount
  \/ ConvertStatus
  \/ ConvertNotification
  \/ ConvertContext
  \/ ConvertConversation
  \/ ConvertInstance
  \/ ConvertReport
  \/ ConvertResults

ConvSpec == ConvInit /\ [][ConvNext]_vars

----------------------------------------------------------------------------
(* Claims about PixelfedAPI.Client *)

CancelAwareVerbs == {"get", "put", "putForm", "patch", "patchForm", "del"}
Aborted(o) == o.transport = Rejected(CanceledError)
CancellationFailure == Rejected(RequestCanceledError(CanceledError.message))

\* C1: when cancel() is called on an instance, every request issued through that
\* instance and still pending is rejected with RequestCanceledError in that very
\* step: none stays pending and none is rejected with another failure.
C1_CancelRejectsEveryInFlightRequest ==
  [][\A c \in ClientIds :
       (c \in constructed /\ ~aborted[c] /\ aborted'[c]) =>
         \A r \in BagToSet(requests) :
           r.client = c =>
             /\ r \notin BagToSet(requests')
             /\ \E o \in settled' : o.request = r /\ o.promise = CancellationFailure]_vars

\* C2: a request is aborted only by a cancel() on the instance it was issued
\* through: no instance that was never canceled has a request aborted.
C2_CancelIsInstanceScoped ==
  \A o \in settled : Aborted(o) => aborted[o.request.client]

\* C3: an aborted request fails with RequestCanceledError on get, put, putForm,
\* patch, patchForm and del, and with the transport's own abort failure on post
\* and postForm.
C3_AbortTranslatedOnSixVerbs ==
  \A o \in settled :
    Aborted(o) =>
      IF o.request.verb \in CancelAwareVerbs
      THEN o.promise = CancellationFailure
      ELSE o.request.verb \in {"post", "postForm"} /\ o.promise = Rejected(CanceledError)

\* one cancel() aborting a del and a post that were both pending
C3_Witness ==
  /\ \E o \in settled : Aborted(o) /\ o.request.verb = "del"
  /\ \E o \in settled : Aborted(o) /\ o.request.verb = "post"

\* C4: on every verb, a transport failure that is not an abort reaches the caller
\* as the same failure value; the step issues no new call (no retry), and the
\* promise is neither the cancellation failure nor fulfilled.
C4_FailurePropagatedUnchanged ==
  \A o \in settled :
    (o.transport.state = "rejected" /\ ~isCancel(o.transport.reason)) =>
      /\ o.promise = Rejected(o.transport.reason)
      /\ o.promise # CancellationFailure
      /\ axiosCall = NoCall
      /\ BagCardinality(requests) < MaxRequests

\* a transport failure (a 404 or a network failure) delivered on post or put
C4_Witness ==
  \E o \in settled :
    /\ o.request.verb \in {"post", "put"}
    /\ o.transport.state = "rejected"
    /\ o.transport.reason \in Failures

C6_UniformEnvelope ==
  \A o \in settled :
    o.transport.state = "fulfilled" =>
      /\ o.promise.state = "fulfilled"
      /\ DOMAIN o.promise.value = {"data", "status", "statusText", "headers"}
      /\ \A k \in DOMAIN o.promise.value : o.promise.value[k] = o.transport.value[k]

\* a 204 response delivered on postForm
C6_Witness ==
  \E o \in settled :
    /\ o.request.verb = "postForm"
    /\ o.transport.state = "fulfilled"
    /\ o.transport.value.status = 204
\* C13: when the instance holds a token and the caller passes its own
\* Authorization header, the call is sent with Authorization = "Bearer <token>"
\* and every other caller header with the caller's value, and no further header.
C13_CallerAuthorizationReplaced ==
  (/\ axiosCall # NoCall
   /\ Truthy(accessToken[axiosCall.client])
   /\ "Authorization" \in DOMAIN axiosCall.headers) =>
    LET sent == axiosCall.config.headers
    IN /\ DOMAIN sent = DOMAIN axiosCall.headers
       /\ sent["Authorization"] = "Bearer " \o accessToken[axiosCall.client].str
       /\ \A k \in DOMAIN axiosCall.headers \ {"Authorization"} :
            sent[k] = axiosCall.headers[k]

\* a put by an instance holding a token, the caller passing Accept and Authorization
C13_Witness ==
  /\ axiosCall # NoCall
  /\ axiosCall.verb = "put"
  /\ accessToken[axiosCall.client] = Str("tok")
  /\ axiosCall.headers = [Accept |-> "text/html", Authorization |-> "Basic caller"]
  /\ axiosCall.config.headers = [Accept |-> "text/html", Authorization |-> "Bearer tok"]

\* C14: an instance that was canceled stays canceled in every later step, and a
\* request it issues after its cancel() never settles as a success: on get, put,
\* putForm, patch, patchForm and del it fails with RequestCanceledError.
C14_CanceledInstanceStaysCanceled ==
  [][/\ \A c \in ClientIds : aborted[c] => aborted'[c]
     /\ \A o \in settled' :
          o.request.afterCancel =>
            /\ o.promise.state = "rejected"
            /\ o.request.verb \in CancelAwareVerbs => o.promise = CancellationFailure]_vars

----------------------------------------------------------------------------
(* Claims about PixelfedAPI.Converter *)

\* C7: on the five notification kinds encode and decode are inverse bijections:
\* decode(encode(m)) = m for every canonical member m, and
\* encode(decode(b)) = b for every backend member b.
C7_NotificationTypeRoundTrip ==
  /\ (convOp = "encodeNotificationType" /\ convIn \in CanonicalKinds) =>
       /\ convOut \in BackendKinds
       /\ decodeNotificationType(convOut) = convIn
  /\ (convOp = "decodeNotificationType" /\ convIn \in BackendKinds) =>
       /\ convOut \in CanonicalKinds
       /\ encodeNotificationType(convOut) = convIn

\* the backend member Reblog decoded to the canonical Reblog
C7_Witness ==
  /\ convOp = "decodeNotificationType"
  /\ convIn = PixelfedNotificationType_Reblog
  /\ convOut = NotificationType_Reblog

\* C8: a value outside the five kinds is mapped to the unknown-value marker by
\* encode and by decode, and a backend Notification with such a type converts to
\* that marker, with or without a status.
C8_UnknownKindYieldsMarker ==
  /\ (convOp = "encodeNotificationType" /\ convIn \notin CanonicalKinds) =>
       convOut = UnknownNotificationTypeError
  /\ (convOp = "decodeNotificationType" /\ convIn \notin BackendKinds) =>
       convOut = UnknownNotificationTypeError
  /\ (convOp = "notification" /\ Get(convIn, "type") \notin BackendKinds) =>
       convOut = UnknownNotificationTypeError

\* a notification of an unknown type with a status attached gave the marker
C8_Witness ==
  /\ convOp = "notification"
  /\ Get(convIn, "type") = Str("bogus_kind")
  /\ Truthy(Get(convIn, "status"))
  /\ convOut = UnknownNotificationTypeError

\* C9: a backend Notification of a known type without a status converts to an
\* object with exactly the keys account, created_at, id and type; one with a
\* status converts to an object whose status is the converted status.
C9_NotificationStatusOnlyWhenPresent ==
  (convOp = "notification" /\ Get(convIn, "type") \in BackendKinds) =>
    /\ convOut.type = decodeNotificationType(convIn.type)
    /\ convOut.account = account(convIn.account)
    /\ IF Truthy(Get(convIn, "status"))
       THEN /\ DOMAIN convOut = {"account", "created_at", "id", "type", "status"}
            /\ convOut.status = status(convIn.status)
            /\ convOut.status.plain_content = Null
            /\ convOut.status.id = convIn.status.id
       ELSE DOMAIN convOut = {"account", "created_at", "id", "type"}

\* a follow notification whose status is null gave an object without a status key
C9_Witness ==
  /\ convOp = "notification"
  /\ Get(convIn, "type") = PixelfedNotificationType_Follow
  /\ "status" \in DOMAIN convIn
  /\ convIn.status = Null
  /\ "status" \notin DOMAIN convOut

\* c is the canonical form of the backend status s, at every level of its reblog chain
RECURSIVE ConvertedStatus(_, _)
ConvertedStatus(c, s) ==
  /\ c.id = s.id
  /\ c.account.id = s.account.id
  /\ c.account.group = Null
  /\ c.plain_content = Null
  /\ IsArray(c.media_attachments)
  /\ IsArray(Get(s, "media_attachments")) => c.media_attachments = s.media_attachments
  /\ IsArray(c.mentions)
  /\ IsArray(Get(s, "mentions")) => c.mentions = s.mentions
  /\ IF Truthy(Get(s, "reblog"))
     THEN ConvertedStatus(c.reblog, s.reblog)
     ELSE c.reblog = Null

\* C10: a backend Status without a reblog converts to reblog = null; one with a
\* nested Status converts to the converter's result for the nested Status, whose
\* account, media attachments and mentions are converted, at every depth.
C10_ReblogConvertedRecursively ==
  convOp = "status" =>
    /\ IF Truthy(Get(convIn, "reblog"))
       THEN convOut.reblog = status(convIn.reblog)
       ELSE convOut.reblog = Null
    /\ ConvertedStatus(convOut, convIn)

\* a chain of two reblogs, the innermost with an attachment and a mention
C10_Witness ==
  /\ convOp = "status"
  /\ Truthy(Get(convIn, "reblog"))
  /\ Truthy(Get(convIn.reblog, "reblog"))
  /\ convOut.reblog.reblog.media_attachments = Arr(<<Attachment1>>)
  /\ convOut.reblog.reblog.mentions = Arr(<<Mention1>>)
  /\ convOut.reblog.reblog.reblog = Null

\* the fields that are arrays in the canonical model, per converter
ArrayFields(op) ==
  CASE op = "context" -> {"ancestors", "descendants"}
    [] op = "conversation" -> {"accounts"}
    [] op = "results" -> {"accounts", "statuses", "hashtags"}
    [] op = "status" -> {"emojis", "media_attachments", "mentions", "tags"}
    [] op = "account" -> {"emojis", "fields"}
    [] op = "instance" -> {"languages", "rules"}
    [] op = "report" -> {"status_ids", "rule_ids"}
    [] OTHER -> {}

\* C11: in every converter, a backend value of a canonically-array field that is
\* absent, null or otherwise not an array gives an empty sequence in the result.
C11_NonArrayYieldsEmptySequence ==
  \A f \in ArrayFields(convOp) :
    ~IsArray(Get(convIn, f)) => convOut[f] = Arr(<<>>)

AccountKeys ==
  {"id", "username", "acct", "display_name", "locked", "discoverable", "group",
   "noindex", "suspended", "limited", "created_at", "followers_count",
   "following_count", "statuses_count", "note", "url", "avatar", "avatar_static",
   "header", "header_static", "emojis", "moved", "fields", "bot", "source"}
AccountNullKeys == {"group", "noindex", "suspended", "limited", "moved", "bot"}

\* C12: the account converter gives every backend account the same keys; group,
\* noindex, suspended, limited, moved and bot are null, and every other key holds
\* the backend's value for it.
C12_AccountFixedShape ==
  convOp = "account" =>
    /\ DOMAIN convOut = AccountKeys
    /\ \A k \in AccountNullKeys : convOut[k] = Null
    /\ \A k \in AccountKeys \ AccountNullKeys : convOut[k] = Get(convIn, k)

\* the account without discoverable and source, whose backend value of bot is false
C12_Witness ==
  /\ convOp = "account"
  /\ convIn = Account2
  /\ DOMAIN convIn \cap {"discoverable", "source"} = {}
  /\ convIn.bot = Bool(FALSE)
  /\ convOut.bot = Null
  /\ convOut.group = Null
  /\ convOut.id = Str("2")
====
